---- MODULE Spec2Model ----
(***************************************************************************)
(* PlotManager (chia/plotting/manager.py): the refresh loop thread, the    *)
(* batch workers of process_batch, and the external callers of the facade  *)
(* (start_refreshing, stop_refreshing, reset, trigger_refresh,             *)
(* set_public_keys), together with the filesystem and the clock they read. *)
(***************************************************************************)
EXTENDS Integers, Sequences, FiniteSets, TLC

(***************************************************************************)
(* Universe.  A path is <<parent directory, basename>>.                    *)
(***************************************************************************)
Dirs == {"d1", "d2"}
Names == {"a"}
Paths == Dirs \X Names

Parent(p) == p[1]
Basename(p) == p[2]
JoinPath(dir, name) == <<dir, name>>

None == "None"

\* Keys embedded in the plot stored at each path (read by the prover).
FarmerKeyOf(p) == "F1"
PoolKeyOf(p) == IF Parent(p) = "d1" THEN "P1" ELSE None

\* Allow-lists an external caller may install with set_public_keys.
FarmerLists == {{"F1"}, {"F2"}}
PoolLists == {{"P1"}}

\* What load_file and the size check see of a file.
\*   absent  : not listed by the enumerator
\*   bad     : listed, load_file returns None
\*   copying : parses, k >= 30, st_size < 0.98 * expected size
\*   ok      : parses and passes the size check
FileStates == {"absent", "bad", "copying", "ok"}

\* Threads.  Loop threads are the Thread objects start_refreshing creates;
\* callers are external threads calling start_refreshing/stop_refreshing;
\* Ext is the external thread calling reset().
Threads == {"T1", "T2"}
Callers == {"A", "B"}
Ext == "ext"
NoThread == "none"
Free == "free"

\* Clock.  Time is counted in ticks of 1/TicksPerSecond seconds, so that
\* int(time.time()) is a real truncation.
TicksPerSecond == 2
MaxTicks == 3
Epoch == 2 * TicksPerSecond

\* refresh_parameter (PlotsRefreshParameter), in seconds.
IntervalSeconds == 1
RetryInvalidSeconds == 1

VARIABLES
    \* ---- PlotManager fields
    plots,                    \* keys of self.plots
    plot_filename_paths,      \* basename -> [primary, dups]
    failed_to_open_filenames, \* path -> int timestamp (ticks)
    no_key_filenames,         \* set of paths
    farmer_public_keys,
    pool_public_keys,
    cache,                    \* paths with a CacheEntry in memory
    cache_file,               \* paths in the cache file on disk
    match_str,
    open_no_key_filenames,
    batch_size,               \* refresh_parameter.batch_size
    last_refresh_time,
    lock,                     \* holder of self._lock, or Free
    plot_filename_paths_lock, \* holder of self.plot_filename_paths_lock, or Free
    refresh_thread,           \* self._refresh_thread
    refreshing_enabled,       \* self._refreshing_enabled
    initial,                  \* self._initial
    \* ---- environment
    fs,                       \* path -> file state
    plot_dirs,                \* directory keys the enumerator walks, in order
    now,                      \* time.time(), in ticks
    \* ---- loop threads (locals of _refresh_task and process_batch)
    pc,                       \* thread -> position
    plot_paths,               \* thread -> candidate list of the cycle
    pos,                      \* thread -> number of candidates already batched
    removed,                  \* thread -> total_result.removed (as a set)
    loaded,                   \* thread -> total_result.loaded (as a set)
    workers,                  \* thread -> sequence of process_file calls
    reset_pc,                 \* resetter -> position inside reset()
    \* ---- external callers of start_refreshing / stop_refreshing
    cpc,                      \* caller -> position
    cthread,                  \* caller -> thread it spawns or joins
    \* ---- history
    clog,                     \* thread -> events emitted in the current cycle
    at_start,                 \* thread -> tables as they were when the cycle started
    stable,                   \* thread -> files and allow-lists unchanged since then
    fail_time,                \* path -> time load_file last failed on it (0: never)
    skipped,                  \* paths whose last process_file took the size-check return
    pending,                  \* trigger_refresh() called, no cycle started since
    before_reset,             \* resetter -> what lock-free readers saw when it began
    overlapped,               \* caller -> a start_refreshing began during its stop
    quiesced                  \* a stop_refreshing returned, no start since

mgr == <<plots, plot_filename_paths, failed_to_open_filenames, no_key_filenames,
         cache, cache_file, last_refresh_time, lock, plot_filename_paths_lock, initial>>
keys == <<farmer_public_keys, pool_public_keys>>
config == <<match_str, open_no_key_filenames, batch_size, plot_dirs>>
life == <<refresh_thread, refreshing_enabled, cpc, cthread, overlapped, quiesced>>
loopv == <<pc, plot_paths, pos, removed, loaded, workers>>
hist == <<clog, at_start, stable, fail_time, skipped, before_reset>>
env == <<fs, now>>
vars == <<mgr, keys, config, life, loopv, hist, reset_pc, env, pending>>

(***************************************************************************)
(* Helpers                                                                 *)
(***************************************************************************)
Put(f, k, v) == [x \in (DOMAIN f) \cup {k} |-> IF x = k THEN v ELSE f[x]]
Drop(f, ks) == [x \in (DOMAIN f) \ ks |-> f[x]]
EmptyMap == [x \in {} |-> None]
Range(s) == {s[i] : i \in 1..Len(s)}
Min(a, b) == IF a < b THEN a ELSE b

RECURSIVE Concat(_)
Concat(ss) == IF Len(ss) = 0 THEN <<>> ELSE Head(ss) \o Concat(Tail(ss))

\* int(time.time()): truncation to whole seconds, in ticks.
IntTime(t) == (t \div TicksPerSecond) * TicksPerSecond

Resetters == Threads \cup {Ext}


(***************************************************************************)
(* Pure functions of the manager                                           *)
(***************************************************************************)
NameOrder == <<"a">>

\* get_filenames(directory): the files present in one directory.
DirListing(dir, files) ==
    SelectSeq([i \in 1..Len(NameOrder) |-> JoinPath(dir, NameOrder[i])],
              LAMBDA p : files[p] # "absent")

\* get_plot_filenames(root_path) flattened as in _refresh_task (143-146).
GetPlotFilenames(dirs, files) ==
    Concat([i \in 1..Len(dirs) |-> DirListing(dirs[i], files)])

\* list_to_batches: the batch starting after `done` candidates, and the
\* `remaining` count it is yielded with.
BatchEnd(paths, done, size) == Min(done + size, Len(paths))
BatchOf(paths, done, size) == SubSeq(paths, done + 1, BatchEnd(paths, done, size))
RemainingAfter(paths, done, size) == Len(paths) - BatchEnd(paths, done, size)

\* str.__contains__ on the path string, for match strings that are whole
\* path components.
MatchesStr(m, p) == m = Parent(p) \/ m = Basename(p)

NeedsRefresh == now - last_refresh_time > IntervalSeconds * TicksPerSecond

InBackoff(p) ==
    /\ p \in DOMAIN failed_to_open_filenames
    /\ now - failed_to_open_filenames[p] < RetryInvalidSeconds * TicksPerSecond

ProcessingRequiredNoBackoff(p) ==
    /\ refreshing_enabled
    /\ (match_str = None \/ MatchesStr(match_str, p))
    /\ p \notin plots
    /\ ~(/\ Basename(p) \in DOMAIN plot_filename_paths
         /\ Parent(p) \in plot_filename_paths[Basename(p)].dups)
ProcessingRequired(p) ==
    /\ refreshing_enabled
    /\ (match_str = None \/ MatchesStr(match_str, p))
    /\ ~InBackoff(p)
    /\ p \notin plots
    /\ ~(/\ Basename(p) \in DOMAIN plot_filename_paths
         /\ Parent(p) \in plot_filename_paths[Basename(p)].dups)

GetDuplicates ==
    {JoinPath(d, n) : <<d, n>> \in
        {dn \in Dirs \X (DOMAIN plot_filename_paths) :
            dn[1] \in plot_filename_paths[dn[2]].dups}}

PlotCount == Cardinality(plots)

\* Cache.changed(): the in-memory cache differs from the file it was loaded
\* from or last saved to.
CacheChanged == cache # cache_file

\* prover.get_filename() of the prover opened on (or cached for) a path.
ProverFilename(p) == p

\* ---- reconcile (162-185) over the candidate set C
PrimaryPath(n) == JoinPath(plot_filename_paths[n].primary, n)
FilenamesToRemove(C) == {n \in DOMAIN plot_filename_paths : PrimaryPath(n) \notin C}
DupsToRemove(n, C) == {d \in plot_filename_paths[n].dups : JoinPath(d, n) \notin C}
ReconcileRemoved(C) ==
    {PrimaryPath(n) : n \in FilenamesToRemove(C)}
    \cup UNION {{JoinPath(d, n) : d \in DupsToRemove(n, C)} :
                n \in (DOMAIN plot_filename_paths) \ FilenamesToRemove(C)}
ReconcilePlots(C) == plots \ {PrimaryPath(n) : n \in FilenamesToRemove(C)}
ReconcileIndex(C) ==
    [n \in (DOMAIN plot_filename_paths) \ FilenamesToRemove(C) |->
        [primary |-> plot_filename_paths[n].primary,
         dups |-> plot_filename_paths[n].dups \ DupsToRemove(n, C)]]

\* ---- key policy of process_file (287-304)
FarmerMissing(p) == FarmerKeyOf(p) \notin farmer_public_keys
PoolMissing(p) == PoolKeyOf(p) # None /\ PoolKeyOf(p) \notin pool_public_keys
KeyRejected(p) == (FarmerMissing(p) \/ PoolMissing(p)) /\ ~open_no_key_filenames
NoKeyNeverCleared(p) ==
    IF KeyRejected(p) THEN no_key_filenames \cup {p}
    ELSE no_key_filenames
NoKeyAfterPolicy(p) ==
    IF KeyRejected(p) THEN no_key_filenames \cup {p}
    ELSE no_key_filenames \ {p}

\* ---- dedup registration of process_file (306-314)
Registered(p) == Basename(p) \in DOMAIN plot_filename_paths
RegisterIndex(p) ==
    LET n == Basename(p)
        d == Parent(ProverFilename(p))
    IN IF ~Registered(p)
       THEN Put(plot_filename_paths, n, [primary |-> d, dups |-> {}])
       ELSE Put(plot_filename_paths, n,
                [primary |-> plot_filename_paths[n].primary,
                 dups |-> plot_filename_paths[n].dups \cup {d}])


\* What a reader that takes no lock can see of the tables: get_duplicates()
\* and initial_refresh() from outside, processing_required and the prune step
\* inside the loop.
LockFreeView == [live |-> plots, index |-> plot_filename_paths,
                 failed |-> failed_to_open_filenames, no_key |-> no_key_filenames,
                 initial_refresh |-> initial]
ClearedView == [live |-> {}, index |-> EmptyMap, failed |-> EmptyMap,
                no_key |-> {}, initial_refresh |-> TRUE]
NoView == [live |-> {}, index |-> EmptyMap, failed |-> EmptyMap,
           no_key |-> {}, initial_refresh |-> FALSE]

\* What the history variable at_start keeps of the tables.
NoSnapshot == [live |-> {}, no_key |-> {}, backoff |-> {}, skipped |-> {}]
TablesNow == [live |-> plots, no_key |-> no_key_filenames,
              backoff |-> {p \in Paths : InBackoff(p)}, skipped |-> skipped]

(***************************************************************************)
(* Initial state: PlotManager.__init__ (46-72), nothing started.           *)
(***************************************************************************)
InitWith(matchStrs, openFlags, batchSizes, dirLists, fileSystems) ==
    /\ plots = {}
    /\ plot_filename_paths = EmptyMap
    /\ failed_to_open_filenames = EmptyMap
    /\ no_key_filenames = {}
    /\ farmer_public_keys = {}
    /\ pool_public_keys = {}
    /\ cache = {}
    /\ cache_file = {}
    /\ match_str \in matchStrs
    /\ open_no_key_filenames \in openFlags
    /\ batch_size \in batchSizes
    /\ last_refresh_time = 0
    /\ lock = Free
    /\ plot_filename_paths_lock = Free
    /\ refresh_thread = NoThread
    /\ refreshing_enabled = FALSE
    /\ initial = TRUE
    /\ fs \in fileSystems
    /\ plot_dirs \in dirLists
    /\ now = Epoch
    /\ pc = [t \in Threads |-> "none"]
    /\ plot_paths = [t \in Threads |-> <<>>]
    /\ pos = [t \in Threads |-> 0]
    /\ removed = [t \in Threads |-> {}]
    /\ loaded = [t \in Threads |-> {}]
    /\ workers = [t \in Threads |-> <<>>]
    /\ reset_pc = [r \in Resetters |-> "idle"]
    /\ cpc = [c \in Callers |-> "idle"]
    /\ cthread = [c \in Callers |-> NoThread]
    /\ overlapped = [c \in Callers |-> FALSE]
    /\ clog = [t \in Threads |-> <<>>]
    /\ at_start = [t \in Threads |-> NoSnapshot]
    /\ stable = [t \in Threads |-> FALSE]
    /\ fail_time = [p \in Paths |-> 0]
    /\ skipped = {}
    /\ pending = FALSE
    /\ before_reset = [r \in Resetters |-> NoView]
    /\ quiesced = FALSE

(***************************************************************************)
(* The refresh loop, _refresh_task (134-231), run by loop thread t.        *)
(***************************************************************************)
Alive(t) == pc[t] # "none"

\* self._refresh_callback(event, ...): the observer is called with `kind`.
Emit(t, kind) == clog' = [clog EXCEPT ![t] = Append(@, kind)]

\* The locals of a cycle go out of scope (and its history with them).
CycleOver(t) ==
    /\ plot_paths' = [plot_paths EXCEPT ![t] = <<>>]
    /\ pos' = [pos EXCEPT ![t] = 0]
    /\ removed' = [removed EXCEPT ![t] = {}]
    /\ loaded' = [loaded EXCEPT ![t] = {}]
    /\ clog' = [clog EXCEPT ![t] = <<>>]
    /\ at_start' = [at_start EXCEPT ![t] = NoSnapshot]
    /\ stable' = [stable EXCEPT ![t] = FALSE]

\* 135-141: leave when refreshing is disabled, go on when a refresh is due,
\* sleep otherwise.
LoopWait(t) ==
    /\ pc[t] = "wait"
    /\ \/ /\ ~refreshing_enabled
          /\ pc' = [pc EXCEPT ![t] = "none"]
       \/ /\ refreshing_enabled
          /\ NeedsRefresh
          /\ pc' = [pc EXCEPT ![t] = "snapshot"]
    /\ clog' = [clog EXCEPT ![t] = <<>>]
    /\ UNCHANGED <<pending, mgr, keys, config, life, env, reset_pc,
                   plot_paths, pos, removed, loaded, workers, at_start, stable,
                   fail_time, skipped, before_reset>>

\* 143-151: snapshot the candidates, call the observer with Started.  The
\* observer may raise.
LoopStarted(t) ==
    /\ pc[t] = "snapshot"
    /\ plot_paths' = [plot_paths EXCEPT ![t] = GetPlotFilenames(plot_dirs, fs)]
    /\ removed' = [removed EXCEPT ![t] = {}]
    /\ loaded' = [loaded EXCEPT ![t] = {}]
    /\ pos' = [pos EXCEPT ![t] = 0]
    /\ Emit(t, "Started")
    /\ at_start' = [at_start EXCEPT ![t] = TablesNow]
    /\ stable' = [stable EXCEPT ![t] = TRUE]
    /\ pending' = FALSE
    /\ UNCHANGED <<fail_time, skipped, before_reset>>
    /\ \E raised \in BOOLEAN :
          pc' = [pc EXCEPT ![t] = IF raised THEN "except" ELSE "prune"]
    /\ UNCHANGED <<mgr, keys, config, life, env, reset_pc, workers>>

\* 154-160: drop failed-open and no-key entries of vanished paths.  No lock.
LoopPrune(t) ==
    /\ pc[t] = "prune"
    /\ failed_to_open_filenames' =
          Drop(failed_to_open_filenames,
               (DOMAIN failed_to_open_filenames) \ Range(plot_paths[t]))
    /\ no_key_filenames' = no_key_filenames \cap Range(plot_paths[t])
    /\ pc' = [pc EXCEPT ![t] = "reconcile"]
    /\ UNCHANGED <<pending, plots, plot_filename_paths, cache, cache_file,
                   last_refresh_time, lock, plot_filename_paths_lock, initial, keys, config, life, env,
                   reset_pc, plot_paths, pos, removed, loaded, workers, hist>>

\* 162-187: reconcile index and live plots under the lock, then enter the
\* batch loop (which has no iteration for an empty candidate list).
LoopReconcile(t) ==
    /\ pc[t] = "reconcile"
    /\ lock = Free
    /\ LET C == Range(plot_paths[t]) IN
          /\ plots' = ReconcilePlots(C)
          /\ plot_filename_paths' = ReconcileIndex(C)
          /\ removed' = [removed EXCEPT ![t] = @ \cup ReconcileRemoved(C)]
    /\ pc' = [pc EXCEPT ![t] = IF Len(plot_paths[t]) = 0 THEN "done_check" ELSE "batch"]
    /\ UNCHANGED <<pending, failed_to_open_filenames, no_key_filenames, cache, cache_file, last_refresh_time, lock, plot_filename_paths_lock, initial, keys, config, life,
                   env, reset_pc, plot_paths, pos, loaded, workers, hist>>

\* 187-188, 335-339: take the next batch, filter it through
\* processing_required and hand the survivors to the executor.
NewWorker(p) == [path |-> p, pc |-> "load", ret |-> FALSE]
PathsToProcess(batch) == SelectSeq(batch, LAMBDA p : ProcessingRequired(p))
LoopBatchStart(t) ==
    /\ pc[t] = "batch"
    /\ LET todo == PathsToProcess(BatchOf(plot_paths[t], pos[t], batch_size)) IN
          workers' = [workers EXCEPT ![t] = [i \in 1..Len(todo) |-> NewWorker(todo[i])]]
    /\ pc' = [pc EXCEPT ![t] = "workers"]
    /\ UNCHANGED <<pending, mgr, keys, config, life, env, reset_pc,
                   plot_paths, pos, removed, loaded, hist>>

\* 340-346, 189-196: all workers returned.  An exception of a worker is
\* raised again by executor.map and leaves process_batch; otherwise merge the
\* workers' plots under the lock, then read the enabled flag: abort, or
\* accumulate and go on to report.
PlotsLoaded(t) ==
    {ProverFilename(workers[t][i].path) :
        i \in {j \in 1..Len(workers[t]) : workers[t][j].ret}}
WorkerRaised(t) == \E i \in 1..Len(workers[t]) : workers[t][i].pc = "raised"
LoopBatchJoin(t) ==
    /\ pc[t] = "workers"
    /\ \A i \in 1..Len(workers[t]) : workers[t][i].pc \in {"done", "raised"}
    /\ workers' = [workers EXCEPT ![t] = <<>>]
    /\ IF WorkerRaised(t)
       THEN /\ plots' = plots
            /\ loaded' = loaded
            /\ pc' = [pc EXCEPT ![t] = "except"]
       ELSE /\ lock = Free
            /\ plots' = plots \cup PlotsLoaded(t)
            /\ IF refreshing_enabled
               THEN /\ loaded' = [loaded EXCEPT ![t] = @ \cup PlotsLoaded(t)]
                    /\ pc' = [pc EXCEPT ![t] = "batch_emit"]
               ELSE /\ loaded' = loaded
                    /\ pc' = [pc EXCEPT ![t] = "done_check"]
    /\ UNCHANGED <<pending, plot_filename_paths, failed_to_open_filenames, no_key_filenames,
                   cache, cache_file, last_refresh_time, lock, plot_filename_paths_lock,
                   initial, keys, config, life, env, reset_pc, plot_paths, pos,
                   removed, hist>>

\* 198-200: call the observer with BatchProcessed; leave the batch loop after
\* the last batch.
LoopBatchEmit(t) ==
    /\ pc[t] = "batch_emit"
    /\ Emit(t, "BatchProcessed")
    /\ pos' = [pos EXCEPT ![t] = BatchEnd(plot_paths[t], pos[t], batch_size)]
    /\ \E raised \in BOOLEAN :
          pc' = [pc EXCEPT ![t] =
                    IF raised THEN "except"
                    ELSE IF RemainingAfter(plot_paths[t], pos[t], batch_size) = 0
                         THEN "done_check" ELSE "batch"]
    /\ UNCHANGED <<pending, mgr, keys, config, life, env, reset_pc,
                   plot_paths, removed, loaded, workers, at_start, stable,
                   fail_time, skipped, before_reset>>

\* 202: read the enabled flag.
LoopDoneCheck(t) ==
    /\ pc[t] = "done_check"
    /\ pc' = [pc EXCEPT ![t] = IF refreshing_enabled THEN "done_emit" ELSE "finish"]
    /\ UNCHANGED <<pending, mgr, keys, config, life, env, reset_pc,
                   plot_paths, pos, removed, loaded, workers, hist>>

\* 203-206: call the observer with Done; the cycle goes on to its end unless
\* the observer raised.
AfterDoneLoops(raised) == IF raised THEN "except" ELSE "batch"
AfterDone(raised) == IF raised THEN "except" ELSE "finish"
LoopDoneEmit(t) ==
    /\ pc[t] = "done_emit"
    /\ Emit(t, "Done")
    /\ \E raised \in BOOLEAN : pc' = [pc EXCEPT ![t] = AfterDone(raised)]
    /\ UNCHANGED <<pending, mgr, keys, config, life, env, reset_pc,
                   plot_paths, pos, removed, loaded, workers, at_start, stable,
                   fail_time, skipped, before_reset>>

\* 206-222: clear _initial, sweep the cache (no entry expires within the
\* clock's horizon: Cache.expiry_seconds is days), save it when dirty, stamp
\* last_refresh_time.  No lock.
LoopFinish(t) ==
    /\ pc[t] = "finish"
    /\ initial' = FALSE
    /\ cache' = cache
    /\ cache_file' = IF CacheChanged THEN cache ELSE cache_file
    /\ last_refresh_time' = now
    /\ pc' = [pc EXCEPT ![t] = "wait"]
    /\ CycleOver(t)
    /\ UNCHANGED <<pending, plots, plot_filename_paths, failed_to_open_filenames,
                   no_key_filenames, lock, plot_filename_paths_lock, keys, config, life, env, reset_pc,
                   workers, fail_time, skipped, before_reset>>

(***************************************************************************)
(* process_file (259-332), call i of the executor of loop thread t.        *)
(***************************************************************************)
WorkerAt(t, i, where) ==
    /\ pc[t] = "workers"
    /\ i \in 1..Len(workers[t])
    /\ workers[t][i].pc = where

WorkerGoes(t, i, where, result) ==
    workers' = [workers EXCEPT ![t][i].pc = where, ![t][i].ret = result]

\* A process_file that treats a file failing the size check as unreadable.
AfterLoadRecordsFailure(f) == IF f = "ok" THEN "cache" ELSE "fail"

\* 260-276: where process_file goes after load_file and the size check.
AfterLoad(f) == CASE f \in {"absent", "bad"} -> "fail"
                  [] f = "copying" -> "done"
                  [] OTHER -> "cache"

\* 260-276: load_file and the size check, outside any lock.
WorkerLoad(t, i) ==
    /\ WorkerAt(t, i, "load")
    /\ LET f == fs[workers[t][i].path] IN
          /\ WorkerGoes(t, i, AfterLoad(f), FALSE)
          /\ skipped' = IF f = "copying"
                        THEN skipped \cup {workers[t][i].path}
                        ELSE skipped \ {workers[t][i].path}
          /\ fail_time' = IF f \in {"absent", "bad"}
                          THEN [fail_time EXCEPT ![workers[t][i].path] = now]
                          ELSE fail_time
    /\ UNCHANGED <<pending, mgr, keys, config, life, env, reset_pc,
                   pc, plot_paths, pos, removed, loaded, clog, at_start, stable,
                   before_reset>>

\* 262-264: record the failure time under the lock.
WorkerFail(t, i) ==
    /\ WorkerAt(t, i, "fail")
    /\ lock = Free
    /\ failed_to_open_filenames' =
          Put(failed_to_open_filenames, workers[t][i].path, IntTime(now))
    /\ WorkerGoes(t, i, "done", FALSE)
    /\ UNCHANGED <<pending, plots, plot_filename_paths, no_key_filenames, cache, cache_file, last_refresh_time, lock, plot_filename_paths_lock, initial, keys, config, life,
                   env, reset_pc, pc, plot_paths, pos, removed, loaded, hist>>

\* 278-285: cache lookup, and insertion on a miss, under the lock.  On a
\* miss CacheEntry.from_disk_prover (283) may raise.
WorkerCache(t, i) ==
    /\ WorkerAt(t, i, "cache")
    /\ lock = Free
    /\ \E raised \in {FALSE, workers[t][i].path \notin cache} :
          IF raised
          THEN /\ cache' = cache
               /\ WorkerGoes(t, i, "raised", FALSE)
          ELSE /\ cache' = cache \cup {workers[t][i].path}
               /\ WorkerGoes(t, i, "policy", FALSE)
    /\ UNCHANGED <<pending, plots, plot_filename_paths, failed_to_open_filenames,
                   no_key_filenames, cache_file, last_refresh_time, lock, plot_filename_paths_lock, initial,
                   keys, config, life, env, reset_pc, pc, plot_paths, pos, removed,
                   loaded, hist>>

\* The name under which call i of the executor of loop thread t holds a lock.
WorkerName(t, i) ==
    CASE t = "T1" /\ i = 1 -> "T1.1"
      [] t = "T1" /\ i = 2 -> "T1.2"
      [] t = "T2" /\ i = 1 -> "T2.1"
      [] t = "T2" /\ i = 2 -> "T2.2"
      [] OTHER -> "T.3"

\* 287-304: take the big lock and apply the key policy; a rejected path
\* returns (releasing the lock), an accepted one goes on to the dedup index
\* with the big lock held.
WorkerPolicy(t, i) ==
    /\ WorkerAt(t, i, "policy")
    /\ lock = Free
    /\ LET p == workers[t][i].path IN
          /\ no_key_filenames' = NoKeyAfterPolicy(p)
          /\ IF KeyRejected(p)
             THEN /\ WorkerGoes(t, i, "done", FALSE)
                  /\ lock' = Free
             ELSE /\ WorkerGoes(t, i, "dedup", FALSE)
                  /\ lock' = WorkerName(t, i)
    /\ UNCHANGED <<pending, plots, plot_filename_paths, failed_to_open_filenames,
                   plot_filename_paths_lock, cache, cache_file, last_refresh_time,
                   initial, keys, config, life, env, reset_pc, pc, plot_paths, pos,
                   removed, loaded, hist>>

\* 306: take the dedup lock, the big lock being held.
WorkerDedup(t, i) ==
    /\ WorkerAt(t, i, "dedup")
    /\ plot_filename_paths_lock = Free
    /\ plot_filename_paths_lock' = WorkerName(t, i)
    /\ WorkerGoes(t, i, "register", FALSE)
    /\ UNCHANGED <<pending, plots, plot_filename_paths, failed_to_open_filenames,
                   no_key_filenames, lock, cache, cache_file, last_refresh_time,
                   initial, keys, config, life, env, reset_pc, pc, plot_paths, pos,
                   removed, loaded, hist>>

\* The dedup lock after the `with` block of 306-314.
DedupLockKept(h) == h
DedupLockAfter(h) == Free

\* 307-332: register the basename and leave the dedup lock; a duplicate
\* returns, a primary drops its failed-open entry and returns its plot; both
\* release the big lock.
WorkerRegister(t, i) ==
    /\ WorkerAt(t, i, "register")
    /\ LET p == workers[t][i].path IN
          /\ plot_filename_paths' = RegisterIndex(p)
          /\ IF Registered(p)
             THEN /\ WorkerGoes(t, i, "done", FALSE)
                  /\ UNCHANGED failed_to_open_filenames
             ELSE /\ WorkerGoes(t, i, "done", TRUE)
                  /\ failed_to_open_filenames' =
                        Drop(failed_to_open_filenames, {p})
    /\ plot_filename_paths_lock' = DedupLockAfter(plot_filename_paths_lock)
    /\ lock' = Free
    /\ UNCHANGED <<pending, plots, no_key_filenames, cache, cache_file,
                   last_refresh_time, initial, keys, config, life, env, reset_pc,
                   pc, plot_paths, pos, removed, loaded, hist>>

(***************************************************************************)
(* reset (80-87), by the external thread Ext or by the exception handler   *)
(* of loop thread r (229-231).  The lock is held from 81 to 87.            *)
(***************************************************************************)
MayReset(r) == IF r = Ext THEN TRUE ELSE pc[r] = "except"

ResetBegin(r) ==
    /\ MayReset(r)
    /\ reset_pc[r] = "idle"
    /\ lock = Free
    /\ lock' = r
    /\ plot_filename_paths_lock' = plot_filename_paths_lock
    /\ last_refresh_time' = now
    /\ reset_pc' = [reset_pc EXCEPT ![r] = "plots"]
    /\ before_reset' = [before_reset EXCEPT ![r] = LockFreeView]
    /\ UNCHANGED <<pending, plots, plot_filename_paths, failed_to_open_filenames,
                   no_key_filenames, cache, cache_file, initial,
                   keys, config, life, env, loopv, clog, at_start, stable, fail_time, skipped>>

\* A reset() whose line 83 leaves the live plots in place.
ResetPlotsKept(r) ==
    /\ reset_pc[r] = "plots"
    /\ plots' = plots
    /\ reset_pc' = [reset_pc EXCEPT ![r] = "index"]
    /\ UNCHANGED <<pending, plot_filename_paths, failed_to_open_filenames, no_key_filenames,
                   cache, cache_file, last_refresh_time, lock, plot_filename_paths_lock, initial,
                   keys, config, life, env, loopv, hist>>

ResetPlots(r) ==
    /\ reset_pc[r] = "plots"
    /\ plots' = {}
    /\ reset_pc' = [reset_pc EXCEPT ![r] = "index"]
    /\ UNCHANGED <<pending, plot_filename_paths, failed_to_open_filenames, no_key_filenames,
                   cache, cache_file, last_refresh_time, lock, plot_filename_paths_lock, initial,
                   keys, config, life, env, loopv, hist>>

ResetIndex(r) ==
    /\ reset_pc[r] = "index"
    /\ plot_filename_paths' = EmptyMap
    /\ reset_pc' = [reset_pc EXCEPT ![r] = "failed"]
    /\ UNCHANGED <<pending, plots, failed_to_open_filenames, no_key_filenames,
                   cache, cache_file, last_refresh_time, lock, plot_filename_paths_lock, initial,
                   keys, config, life, env, loopv, hist>>

ResetFailed(r) ==
    /\ reset_pc[r] = "failed"
    /\ failed_to_open_filenames' = EmptyMap
    /\ reset_pc' = [reset_pc EXCEPT ![r] = "no_key"]
    /\ UNCHANGED <<pending, plots, plot_filename_paths, no_key_filenames,
                   cache, cache_file, last_refresh_time, lock, plot_filename_paths_lock, initial,
                   keys, config, life, env, loopv, hist>>

ResetNoKey(r) ==
    /\ reset_pc[r] = "no_key"
    /\ no_key_filenames' = {}
    /\ reset_pc' = [reset_pc EXCEPT ![r] = "initial"]
    /\ UNCHANGED <<pending, plots, plot_filename_paths, failed_to_open_filenames,
                   cache, cache_file, last_refresh_time, lock, plot_filename_paths_lock, initial,
                   keys, config, life, env, loopv, hist>>

\* 87 and the release; the exception handler then goes back to 135.
ResetEnd(r) ==
    /\ reset_pc[r] = "initial"
    /\ initial' = TRUE
    /\ lock' = Free
    /\ plot_filename_paths_lock' = plot_filename_paths_lock
    /\ reset_pc' = [reset_pc EXCEPT ![r] = "idle"]
    /\ before_reset' = [before_reset EXCEPT ![r] = NoView]
    /\ IF r \in Threads
       THEN /\ pc' = [pc EXCEPT ![r] = "wait"]
            /\ CycleOver(r)
       ELSE UNCHANGED <<pc, plot_paths, pos, removed, loaded, clog, at_start, stable>>
    /\ UNCHANGED <<pending, plots, plot_filename_paths, failed_to_open_filenames,
                   no_key_filenames, cache, cache_file,
                   last_refresh_time, keys, config, life, env, workers, fail_time, skipped>>

(***************************************************************************)
(* start_refreshing (117-122) and stop_refreshing (124-128), called by     *)
(* external thread c.                                                      *)
(***************************************************************************)
\* 118
StartCall(c) ==
    /\ cpc[c] = "idle"
    /\ refreshing_enabled' = TRUE
    /\ cpc' = [cpc EXCEPT ![c] = "start_check"]
    /\ overlapped' = [x \in Callers |-> cpc[x] \in {"stop_check", "stop_join"}]
    /\ quiesced' = FALSE
    /\ UNCHANGED <<pending, mgr, keys, config, env, loopv, hist, reset_pc, refresh_thread, cthread>>

\* 119
StartCheck(c) ==
    /\ cpc[c] = "start_check"
    /\ cpc' = [cpc EXCEPT ![c] =
                  IF refresh_thread = NoThread \/ ~Alive(refresh_thread)
                  THEN "start_spawn" ELSE "idle"]
    /\ UNCHANGED <<pending, mgr, keys, config, env, loopv, hist, reset_pc, refresh_thread,
                   refreshing_enabled, cthread, overlapped, quiesced>>

\* A Thread object not running and not being joined.
Spawnable(t) ==
    /\ ~Alive(t)
    /\ \A c \in Callers : cpc[c] = "stop_join" => cthread[c] # t

\* 120-122: load the cache from its file, create and start the loop thread.
StartSpawn(c) ==
    /\ cpc[c] = "start_spawn"
    /\ \E t \in Threads :
          /\ Spawnable(t)
          /\ t = CHOOSE x \in Threads : Spawnable(x)
          /\ refresh_thread' = t
          /\ pc' = [pc EXCEPT ![t] = "wait"]
    /\ cache' = cache_file
    /\ cpc' = [cpc EXCEPT ![c] = "idle"]
    /\ UNCHANGED <<pending, plots, plot_filename_paths, failed_to_open_filenames,
                   no_key_filenames, cache_file, last_refresh_time, lock, plot_filename_paths_lock, initial,
                   keys, config, env, reset_pc, refreshing_enabled, cthread,
                   overlapped, quiesced,
                   plot_paths, pos, removed, loaded, workers, hist>>

\* 125
StopCall(c) ==
    /\ cpc[c] = "idle"
    /\ refreshing_enabled' = FALSE
    /\ cpc' = [cpc EXCEPT ![c] = "stop_check"]
    /\ overlapped' = [overlapped EXCEPT ![c] = FALSE]
    /\ UNCHANGED <<pending, mgr, keys, config, env, loopv, hist, reset_pc, refresh_thread,
                   cthread, quiesced>>

\* 126: join the thread if there is a live one, else return.
StopCheck(c) ==
    /\ cpc[c] = "stop_check"
    /\ IF refresh_thread # NoThread /\ Alive(refresh_thread)
       THEN /\ cpc' = [cpc EXCEPT ![c] = "stop_join"]
            /\ cthread' = [cthread EXCEPT ![c] = refresh_thread]
            /\ UNCHANGED quiesced
       ELSE /\ cpc' = [cpc EXCEPT ![c] = "idle"]
            /\ quiesced' = (quiesced \/ ~overlapped[c])
            /\ UNCHANGED cthread
    /\ UNCHANGED <<pending, mgr, keys, config, env, loopv, hist, reset_pc, refresh_thread,
                   refreshing_enabled, overlapped>>

\* 127-128: join returns once the thread has finished.
StopJoin(c) ==
    /\ cpc[c] = "stop_join"
    /\ ~Alive(cthread[c])
    /\ refresh_thread' = NoThread
    /\ cthread' = [cthread EXCEPT ![c] = NoThread]
    /\ cpc' = [cpc EXCEPT ![c] = "idle"]
    /\ quiesced' = (quiesced \/ ~overlapped[c])
    /\ UNCHANGED <<pending, mgr, keys, config, env, loopv, hist, reset_pc, refreshing_enabled,
                   overlapped>>

(***************************************************************************)
(* The other facade calls, and the environment.                            *)
(***************************************************************************)
\* 130-132
TriggerRefresh ==
    /\ last_refresh_time # 0 \/ (refreshing_enabled /\ ~pending)
    /\ last_refresh_time' = 0
    /\ pending' = (pending \/ refreshing_enabled)
    /\ UNCHANGED <<plots, plot_filename_paths, failed_to_open_filenames,
                   no_key_filenames, cache, cache_file, lock, plot_filename_paths_lock, initial,
                   keys, config, life, env, loopv, hist, reset_pc>>

\* 92-94
SetPublicKeys(farmer, pool) ==
    /\ <<farmer, pool>> # <<farmer_public_keys, pool_public_keys>>
    /\ farmer_public_keys' = farmer
    /\ pool_public_keys' = pool
    /\ stable' = [t \in Threads |-> FALSE]
    /\ UNCHANGED <<pending, mgr, config, life, env, loopv, clog, at_start, fail_time, skipped,
                   before_reset, reset_pc>>

\* A file appears, disappears, becomes unreadable or readable, or finishes
\* being copied.
FsChange(p, f) ==
    /\ fs[p] # f
    /\ fs' = [fs EXCEPT ![p] = f]
    /\ stable' = [t \in Threads |-> FALSE]
    /\ UNCHANGED <<pending, mgr, keys, config, life, loopv, clog, at_start, fail_time, skipped,
                   before_reset, reset_pc, now>>

\* Half a second passes.
Tick ==
    /\ now < Epoch + MaxTicks
    /\ now' = now + 1
    /\ UNCHANGED <<pending, mgr, keys, config, life, loopv, hist, reset_pc, fs>>

(***************************************************************************)
(* Specifications                                                          *)
(***************************************************************************)
LoopStep(t) ==
    \/ LoopWait(t) \/ LoopStarted(t) \/ LoopPrune(t) \/ LoopReconcile(t)
    \/ LoopBatchStart(t) \/ LoopBatchJoin(t) \/ LoopBatchEmit(t)
    \/ LoopDoneCheck(t) \/ LoopDoneEmit(t) \/ LoopFinish(t)

WorkerStep(t, i) ==
    \/ WorkerLoad(t, i) \/ WorkerFail(t, i) \/ WorkerCache(t, i) \/ WorkerPolicy(t, i)
    \/ WorkerDedup(t, i) \/ WorkerRegister(t, i)

ResetStep(r) ==
    \/ ResetBegin(r) \/ ResetPlots(r) \/ ResetIndex(r)
    \/ ResetFailed(r) \/ ResetNoKey(r) \/ ResetEnd(r)

Boot(c) == StartCall(c) \/ StartCheck(c) \/ StartSpawn(c)
Halt(c) == StopCall(c) \/ StopCheck(c) \/ StopJoin(c)

Program ==
    \/ \E t \in Threads : LoopStep(t) \/ ResetStep(t)
    \/ \E t \in Threads : \E i \in 1..Cardinality(Paths) + 1 : WorkerStep(t, i)

TwoDirs == <<"d1", "d2">>

\* Key rotation: one caller starts the loop; d1/a becomes unreadable and
\* readable again, the allow-lists are replaced and refreshes are triggered
\* at any time.
BothPresent == [p \in Paths |-> "ok"]
OnlyFirst == [p \in Paths |-> IF Parent(p) = "d1" THEN "ok" ELSE "absent"]

Init == InitWith({None}, {FALSE, TRUE}, {1, 2}, {TwoDirs}, {BothPresent, OnlyFirst})

Next ==
    \/ Program
    \/ Boot("A")
    \/ TriggerRefresh
    \/ \E f \in FarmerLists, q \in PoolLists : SetPublicKeys(f, q)
    \/ \E f \in {"ok", "bad"} : FsChange(<<"d1", "a">>, f)

Spec == Init /\ [][Next]_vars

(***************************************************************************)
(* Properties                                                              *)
(***************************************************************************)
Last(s) == s[Len(s)]

\* Loop thread t has just called the observer with Done.
AtDone(t) ==
    /\ pc[t] \in {"finish", "except"}
    /\ reset_pc[t] = "idle"
    /\ Len(clog[t]) > 0
    /\ Last(clog[t]) = "Done"

\* The cycle of t that has just completed ran with the files and the
\* allow-lists it started with.
Undisturbed(t) == AtDone(t) /\ stable[t]

Candidates(t) == Range(plot_paths[t])

KeysAllowed(p) ==
    /\ (~FarmerMissing(p) \/ open_no_key_filenames)
    /\ (~PoolMissing(p) \/ open_no_key_filenames)

IsPrimary(p) == Registered(p) /\ plot_filename_paths[Basename(p)].primary = Parent(p)

Admissible(p) == fs[p] = "ok" /\ KeysAllowed(p) /\ IsPrimary(p)

\* C1: after a completed cycle over candidate set C the live plots are
\* exactly the admissible paths of C (stated for cycles in which every live
\* plot's file is still readable, so that only the key policy is in question).
C1_LiveIsAdmissible ==
    \A t \in Threads :
        (Undisturbed(t) /\ \A p \in plots : fs[p] = "ok")
            => plots = {p \in Candidates(t) : Admissible(p)}

\* C2: a plot that was live when the cycle started and whose farmer key is
\* not in the allow-list (open_no_key_filenames false, file present) is, when
\* the cycle completes, out of the live map and in the no-key set.
C2_RevokedIsDropped ==
    \A t \in Threads : \A p \in Paths :
        (/\ Undisturbed(t)
         /\ p \in at_start[t].live
         /\ p \in Candidates(t)
         /\ FarmerMissing(p)
         /\ ~open_no_key_filenames)
            => (p \notin plots /\ p \in no_key_filenames)

\* The case of C3: p was in the no-key set and not live when the cycle
\* started, its keys are now allowed, its file is fine and no other copy of
\* its basename is the primary.
RestoredCase(t, p) ==
    /\ Undisturbed(t)
    /\ p \in Candidates(t)
    /\ p \in at_start[t].no_key
    /\ p \notin at_start[t].live
    /\ fs[p] = "ok"
    /\ ~FarmerMissing(p)
    /\ ~PoolMissing(p)
    /\ (Registered(p) => IsPrimary(p))

\* C3 as claimed: in that case the completed cycle has admitted p and taken
\* it out of the no-key set.
C3_RestoredIsAdmitted ==
    \A t \in Threads : \A p \in Paths :
        RestoredCase(t, p) => (p \in plots /\ p \notin no_key_filenames)

\* C3 (amended): the same, for a path that was not in its failed-open
\* backoff when the cycle started.
C3_RestoredIsAdmittedOutsideBackoff ==
    \A t \in Threads : \A p \in Paths :
        (RestoredCase(t, p) /\ p \notin at_start[t].backoff)
            => (p \in plots /\ p \notin no_key_filenames)

C3_Witness ==
    \E t \in Threads : \E p \in Paths :
        /\ RestoredCase(t, p)
        /\ p \notin at_start[t].backoff
        /\ p \in plots
        /\ p \notin no_key_filenames


(***************************************************************************)
(* reset() from outside while the loop runs: one caller starts the loop,   *)
(* every plot passes the key policy, d1/a comes and goes.                  *)
(***************************************************************************)
InitReset == InitWith({None}, {TRUE}, {2}, {TwoDirs}, {BothPresent})

NextReset ==
    \/ Program
    \/ Boot("A")
    \/ ResetStep(Ext)
    \/ TriggerRefresh
    \/ \E f \in {"ok", "absent"} : FsChange(<<"d1", "a">>, f)

SpecReset == InitReset /\ [][NextReset]_vars

\* C4: a path that was live when the cycle started and is absent from the
\* cycle's snapshot is out of the live map when the cycle's Done is emitted,
\* and is in the removed list of that Done.
C4_AbsentIsRemoved ==
    \A t \in Threads :
        AtDone(t) => \A p \in at_start[t].live \ Candidates(t) :
                        p \notin plots /\ p \in removed[t]

\* C5: no two live paths share a basename, and after an undisturbed cycle a
\* candidate that would be admitted but for a live copy of its basename is
\* among get_duplicates().
SameBasename(p, q) == p # q /\ Basename(p) = Basename(q)
C5_DuplicateExcluded ==
    /\ \A p \in plots : \A q \in plots : ~SameBasename(p, q)
    /\ \A t \in Threads : \A p \in Paths :
          (/\ Undisturbed(t)
           /\ p \in Candidates(t) \ plots
           /\ fs[p] = "ok"
           /\ KeysAllowed(p)
           /\ p \notin DOMAIN failed_to_open_filenames
           /\ \E q \in plots : SameBasename(p, q))
              => p \in GetDuplicates

\* C9: while a reset() is under way the lock-free readers see the tables
\* either all as they were when it began or all cleared, and no plot loaded
\* before a reset is live afterwards without being the primary of its name.
LiveIsPrimary == \A p \in plots : IsPrimary(p)
C9_ResetAtomic ==
    /\ \A r \in Resetters :
          reset_pc[r] # "idle" => LockFreeView \in {before_reset[r], ClearedView}
    /\ LiveIsPrimary


(***************************************************************************)
(* A candidate list in which a path occurs more than once: two entries of  *)
(* the enumerator's map list the same directory (a directory configured    *)
(* next to a parent that is listed with its subdirectories).               *)
(***************************************************************************)
OverlappingDirs == {<<"d1", "d1">>, <<"d1", "d2", "d1">>}

InitDup == InitWith({None}, {FALSE, TRUE}, {1, 2}, OverlappingDirs, {BothPresent})

NextDup ==
    \/ Program
    \/ Boot("A")
    \/ TriggerRefresh
    \/ SetPublicKeys({"F1"}, {"P1"})
    \/ \E f \in {"ok", "absent"} : FsChange(<<"d1", "a">>, f)

SpecDup == InitDup /\ [][NextDup]_vars

\* C6: for every basename of the dedup index the primary parent directory is
\* not among the basename's duplicate directories.
C6_PrimaryNotDuplicate ==
    \A n \in DOMAIN plot_filename_paths :
        plot_filename_paths[n].primary \notin plot_filename_paths[n].dups


(***************************************************************************)
(* The clock runs: d1/a is unreadable, readable or gone, refreshes are     *)
(* triggered; an observer that raises makes the loop reset the manager.    *)
(***************************************************************************)
OneDir == <<"d1">>
FirstBad == [p \in Paths |-> IF Parent(p) = "d1" THEN "bad" ELSE "absent"]

InitTime == InitWith({None}, {TRUE}, {1}, {OneDir}, {FirstBad})

NextTime ==
    \/ Program
    \/ Boot("A")
    \/ Tick
    \/ TriggerRefresh
    \/ \E f \in {"ok", "bad", "absent"} : FsChange(<<"d1", "a">>, f)

SpecTime == InitTime /\ [][NextTime]_vars

RetryTicks == RetryInvalidSeconds * TicksPerSecond

\* process_file has been called on p and has not yet called load_file.
AboutToLoad(p) ==
    \E t \in Threads : \E i \in 1..Len(workers[t]) :
        workers[t][i].path = p /\ workers[t][i].pc = "load"

\* C7: process_file is not called on a path before retry_invalid_seconds
\* have passed since load_file last failed on it.
C7_NoRetryBeforeFailurePlusRetry ==
    \A p \in Paths : AboutToLoad(p) => now - fail_time[p] >= RetryTicks

\* C7 (amended): process_file is not called on a path that is in the
\* failed-open table with a recorded timestamp less than
\* retry_invalid_seconds old.
C7_NoRetryWhileRecordedInBackoff ==
    \A p \in Paths : AboutToLoad(p) => ~InBackoff(p)

\* A batch holding a path in backoff has been filtered, and no worker was
\* started for the path.
C7_Witness ==
    \E t \in Threads : \E p \in Paths :
        /\ pc[t] = "workers"
        /\ p \in Range(BatchOf(plot_paths[t], pos[t], batch_size))
        /\ InBackoff(p)
        /\ fail_time[p] > 0
        /\ ~AboutToLoad(p)
        /\ workers[t] = <<>>


(***************************************************************************)
(* Life cycle: an external thread calls start_refreshing and               *)
(* stop_refreshing while refreshes are triggered and observers raise.      *)
(***************************************************************************)
InitLife == InitWith({None, "d1"}, {TRUE}, {1, 2}, {TwoDirs}, {OnlyFirst, BothPresent})

NextLife ==
    \/ Program
    \/ Boot("A")
    \/ Halt("A")
    \/ TriggerRefresh
    \/ \E f \in {"ok", "bad", "copying"} : FsChange(<<"d2", "a">>, f)

SpecLife == InitLife /\ [][NextLife]_vars

(***************************************************************************)
(* Two external threads call start_refreshing; one of them also calls      *)
(* stop_refreshing.                                                        *)
(***************************************************************************)
InitRace == InitWith({None}, {TRUE}, {1}, {OneDir}, {OnlyFirst, FirstBad})

NextRace ==
    \/ Program
    \/ \E c \in Callers : Boot(c)
    \/ Halt("A")

SpecRace == InitRace /\ [][NextRace]_vars

\* C8: once a stop_refreshing() has returned and start_refreshing() has not
\* been called since that stop began, the observer is not called.
C8_SilentAfterStop ==
    [][quiesced => \A t \in Threads : Len(clog'[t]) <= Len(clog[t])]_vars


\* The events of one cycle in the order the observer has received them:
\* Started, then BatchProcessed any number of times, then at most one Done.
WellOrdered(s) ==
    \/ s = <<>>
    \/ /\ s[1] = "Started"
       /\ \A i \in 2..Len(s) :
             \/ s[i] = "BatchProcessed"
             \/ s[i] = "Done" /\ i = Len(s)

\* Loop thread t is in a cycle, past the call of the observer with Started.
InCycle(t) ==
    pc[t] \in {"prune", "reconcile", "batch", "workers", "batch_emit",
               "done_check", "done_emit", "finish"}

\* C10: the events of every cycle are one Started first, then zero or more
\* BatchProcessed, then at most one Done.
C10_EventOrder ==
    \A t \in Threads :
        /\ WellOrdered(clog[t])
        /\ InCycle(t) => Len(clog[t]) >= 1

\* A cycle of two batches has completed.
C10_Witness ==
    \E t \in Threads :
        clog[t] = <<"Started", "BatchProcessed", "BatchProcessed", "Done">>


\* The positions of the batch loop and of the Done report (187-203).
Batching == {"batch", "workers", "batch_emit", "done_check", "done_emit"}

\* C11: once the enabled flag has been cleared while a cycle is batching,
\* the observer gets no further event of that cycle, neither BatchProcessed
\* nor Done.
C11_NoEventAfterDisable ==
    [][\A t \in Threads :
          (~refreshing_enabled /\ pc[t] \in Batching)
              => Len(clog'[t]) <= Len(clog[t])]_vars


\* C12: after a trigger_refresh() made while refreshing is enabled, the loop
\* in its waiting state finds a refresh due, whatever the interval.
C12_TriggerForcesCycle ==
    \A t \in Threads :
        (pc[t] = "wait" /\ refreshing_enabled /\ pending) => NeedsRefresh


\* The exception handler of loop thread t returns from its reset().
HandlerResetReturns(t) == reset_pc[t] = "initial" /\ reset_pc'[t] = "idle"

\* C13: when the reset() called by the exception handler returns, the live
\* plots, the dedup index, the failed-open table and the no-key set are
\* empty and _initial is true, and the thread is back at the head of its loop.
C13_ExceptionResets ==
    [][\A t \in Threads :
          HandlerResetReturns(t)
              => /\ plots' = {}
                 /\ plot_filename_paths' = EmptyMap
                 /\ failed_to_open_filenames' = EmptyMap
                 /\ no_key_filenames' = {}
                 /\ initial' = TRUE
                 /\ pc'[t] = "wait"]_vars

\* The reset() of a handler is about to return, having been entered with a
\* live plot and after the initial refresh was over.
C13_Witness ==
    \E t \in Threads :
        /\ reset_pc[t] = "initial"
        /\ before_reset[t].live # {}
        /\ ~before_reset[t].initial_refresh


\* Worker i of loop thread t is about to load a file that is being copied.
LoadsCopying(t, i) ==
    /\ i \in 1..Len(workers[t])
    /\ workers[t][i].pc = "load"
    /\ fs[workers[t][i].path] = "copying"

\* The step of worker i of loop thread t that loads a file being copied
\* returns no plot and leaves the four tables and the admission gate alone.
SoftSkip(t, i) ==
    LET p == workers[t][i].path IN
        (LoadsCopying(t, i) /\ workers'[t][i].pc # "load")
            => /\ workers'[t][i].pc = "done"
               /\ ~workers'[t][i].ret
               /\ plots' = plots
               /\ failed_to_open_filenames' = failed_to_open_filenames
               /\ no_key_filenames' = no_key_filenames
               /\ plot_filename_paths' = plot_filename_paths
               /\ cache' = cache
               /\ ProcessingRequired(p)' = ProcessingRequired(p)

\* Path p was soft-skipped the last time it was processed before the cycle
\* of t that has just completed, and in this cycle it is a candidate whose
\* file has its full size, passes the key policy and is no duplicate.
GrownCase(t, p) ==
    /\ Undisturbed(t)
    /\ p \in Candidates(t)
    /\ p \in at_start[t].skipped
    /\ fs[p] = "ok"
    /\ KeysAllowed(p)
    /\ (Registered(p) => IsPrimary(p))

\* C14: a process_file on a file with k >= 30 and less than 0.98 of its
\* expected size returns no plot and changes neither the failed-open table,
\* the no-key set, the dedup index nor the cache, nor whether the path passes
\* processing_required; and the first completed cycle that finds the file at
\* its full size admits it.
C14_SoftSkip ==
    /\ [][\A t \in Threads : \A i \in 1..2 : SoftSkip(t, i)]_vars
    /\ [](\A t \in Threads : \A p \in Paths : GrownCase(t, p) => p \in plots)

C14_Witness ==
    \E t \in Threads : \E p \in Paths :
        /\ GrownCase(t, p)
        /\ p \in plots
        /\ p \notin at_start[t].live
        /\ failed_to_open_filenames = EmptyMap


\* Worker i of loop thread t completes the key policy of process_file
\* (289-304) on a path one of whose keys is not in the allow-lists.
PolicyOnMissingKey(t, i) ==
    /\ i \in 1..Len(workers[t])
    /\ FarmerMissing(workers[t][i].path) \/ PoolMissing(workers[t][i].path)
    /\ workers[t][i].pc = "policy"
    /\ workers'[t][i].pc # "policy"

\* process_file of worker i of loop thread t has returned no plot.
ReturnedNone(t, i) == workers[t][i].pc = "done" /\ ~workers[t][i].ret

\* C15: after process_file on a path whose farmer key, or present pool key,
\* is not in the allow-lists, the path is in the no-key set, whatever
\* open_no_key_filenames is; and it is returned for admission only if
\* open_no_key_filenames is true.
C15_NoKeyRecorded ==
    [][\A t \in Threads : \A i \in 1..2 :
          PolicyOnMissingKey(t, i)
              => /\ workers[t][i].path \in no_key_filenames'
                 /\ ~open_no_key_filenames => ReturnedNone(t, i)']_vars


\* The loop threads that are running _refresh_task.
LoopThreads == {t \in Threads : Alive(t)}

\* C16: at most one loop thread is alive; and when refreshing is enabled and
\* no start_refreshing() or stop_refreshing() call is in progress (the last
\* call to write the flag was a start_refreshing(), and it has returned),
\* exactly one loop thread is running.
C16_SingleLoopThread ==
    /\ Cardinality(LoopThreads) <= 1
    /\ (refreshing_enabled /\ \A c \in Callers : cpc[c] = "idle")
           => Cardinality(LoopThreads) = 1


\* stop_refreshing() of caller c returns.
StopReturns(c) == cpc[c] \in {"stop_check", "stop_join"} /\ cpc'[c] = "idle"

\* Loop thread t hands files to workers although refreshing is disabled.
StartsBatchDisabled(t) ==
    /\ ~refreshing_enabled
    /\ pc[t] = "batch"
    /\ workers'[t] # <<>>

\* C17 (what a finite run can refute): when stop_refreshing() returns no loop
\* thread is alive, and while refreshing is disabled the loop hands no
\* further file to a worker.
C17_StopReturnsFinished ==
    [][/\ \A c \in Callers : StopReturns(c) => LoopThreads' = {}
       /\ \A t \in Threads : ~StartsBatchDisabled(t)]_vars

\* One external thread calls start_refreshing() and stop_refreshing(); the
\* loop thread, its workers and a stop_refreshing() in progress keep running.
SpecLifeFair ==
    /\ SpecLife
    /\ WF_vars(Program)
    /\ WF_vars(StopCheck("A") \/ StopJoin("A"))

\* C17 (termination, one caller): a stop_refreshing() in progress returns.
StopTerminates ==
    \A c \in Callers : (cpc[c] \in {"stop_check", "stop_join"}) ~> (cpc[c] = "idle")


\* A step taken while a reset() holds the big lock, by a thread other than
\* the one holding it (every step of the holder advances its reset_pc).
StepBesideHolder == lock \in Resetters /\ reset_pc' = reset_pc

\* C18: the live plots, the failed-open table, the no-key set, the cache and
\* _initial are changed only by a thread holding the big lock: while a thread
\* holds it, no step of another thread changes any of them.
C18_MutationsUnderLock ==
    [][StepBesideHolder
          => /\ plots' = plots
             /\ failed_to_open_filenames' = failed_to_open_filenames
             /\ no_key_filenames' = no_key_filenames
             /\ cache' = cache
             /\ initial' = initial]_vars


(***************************************************************************)
(* Locks: the loop thread, the two workers of a batch and an external      *)
(* reset() compete for the big lock; d1/a may turn unreadable and          *)
(* observers and workers may raise.                                        *)
(***************************************************************************)
InitLock == InitWith({None}, {TRUE}, {2}, {TwoDirs}, {BothPresent})

NextLock ==
    \/ Program
    \/ Boot("A")
    \/ ResetStep(Ext)
    \/ TriggerRefresh
    \/ FsChange(<<"d1", "a">>, "bad")

SpecLock == InitLock /\ [][NextLock]_vars

\* Worker i of loop thread t is at a statement that takes the big lock.
WorkerWantsLock(t, i) ==
    /\ i \in 1..Len(workers[t])
    /\ workers[t][i].pc \in {"fail", "cache", "policy"}

\* Loop thread t is at a statement that takes the big lock: the reconcile
\* step, the merge of process_batch, or the reset() of its handler.
LoopWantsLock(t) ==
    \/ pc[t] = "reconcile"
    \/ pc[t] = "workers" /\ \A i \in 1..Len(workers[t]) : workers[t][i].pc = "done"
    \/ pc[t] = "except" /\ reset_pc[t] = "idle"

\* The holder of the big lock can take its next step.
HolderRuns ==
    /\ \A r \in Resetters : lock = r => ENABLED ResetStep(r)
    /\ \A t \in Threads : \A i \in 1..2 :
          lock = WorkerName(t, i) => ENABLED WorkerStep(t, i)

\* C19: the dedup lock is held only by the thread that holds the big lock; no
\* thread holding the big lock is at a statement that takes it; and whenever
\* the big lock is held its holder can run, so that the threads waiting for
\* it are never all blocked.
C19_NoDeadlock ==
    /\ plot_filename_paths_lock # Free => lock = plot_filename_paths_lock
    /\ \A t \in Threads : lock = t => ~LoopWantsLock(t)
    /\ \A t \in Threads : \A i \in 1..2 :
          lock = WorkerName(t, i) => ~WorkerWantsLock(t, i)
    /\ HolderRuns

\* A worker holds both locks while the other worker of its batch waits for
\* the big lock.
C19_Witness ==
    \E t \in Threads : \E i, j \in 1..2 :
        /\ lock = WorkerName(t, i)
        /\ plot_filename_paths_lock = WorkerName(t, i)
        /\ i # j
        /\ WorkerWantsLock(t, j)


\* No loop thread is inside process_batch.
NoBatchRunning == \A t \in Threads : pc[t] # "workers"

\* C20: whenever no batch is running, every live plot's basename is in the
\* dedup index with the plot's directory as primary, so that the reconcile
\* step, which walks the index, reaches every live plot.
C20_LiveIsIndexed ==
    NoBatchRunning
        => \A p \in plots :
              /\ Basename(p) \in DOMAIN plot_filename_paths
              /\ plot_filename_paths[Basename(p)].primary = Parent(p)


\* Loop thread t leaves a cycle in which it has called the observer with Done.
CompletesCycle(t) ==
    /\ pc[t] = "finish"
    /\ pc'[t] # "finish"
    /\ Len(clog[t]) > 0
    /\ Last(clog[t]) = "Done"

\* C21: initial_refresh() turns from true to false only at the end of a
\* cycle that has emitted Done; a cycle aborted because refreshing was
\* disabled leaves _initial as it was.
C21_InitialUntilDone ==
    [][(initial /\ ~initial') => \E t \in Threads : CompletesCycle(t)]_vars

====
